---- MODULE Spec2Model ----
(***************************************************************************)
(* A model of demo.py: the scoped helper snowflake_cursor (a generator     *)
(* based context manager around a driver connection and cursor) and the    *)
(* module-level script that runs one driver-managed block and then nine    *)
(* snowflake_cursor blocks in order.                                       *)
(*                                                                         *)
(* The driver (snowflake.connector) is an external collaborator.  Each     *)
(* call into it either returns or raises; which one is a nondeterministic  *)
(* choice made at the call.  print and attribute reads are language        *)
(* runtime steps and always return.                                        *)
(***************************************************************************)
EXTENDS Integers, Sequences, FiniteSets, TLC

\* Error numbers a driver-reported ProgrammingError may carry: 1..MaxErrno.
MaxErrno == 2

\* Number of the last block of the script (block 0 is lines 44-48, blocks
\* 1..9 are the snowflake_cursor blocks of lines 63-156).
LastBlock == 9

VARIABLES
  blk,        \* index of the block the script is in
  pc,         \* position inside the block / the helper
  ip,         \* index of the next statement of the block body
  conn,       \* module-level name conn (a connection handle, 0 = unbound)
  cur,        \* module-level name cur (a cursor handle, 0 = unbound)
  query_id,   \* module-level name query_id (0 = unbound)
  results,    \* module-level name results
  r_pos,      \* line 100: position in results of the comprehension's r
  hconn,      \* the helper's local conn
  hcur,       \* the helper's local cur
  conns,      \* driver: state of every connection handle ever returned
  curs,       \* driver: state of every cursor handle ever returned
  queries,    \* service: text of every submitted query, indexed by its id
  role,       \* service: the role of the "dev" profile
  exc,        \* the exception in flight (kind "none" when there is none)
  blockErr,   \* the exception the caller block of the current session raised
  stdout,     \* what has been printed
  trace       \* every driver call issued so far

vars == <<blk, pc, ip, conn, cur, query_id, results, r_pos, hconn, hcur,
          conns, curs, queries, role, exc, blockErr, stdout, trace>>

names == <<conn, cur, query_id, results, r_pos>>
locals == <<hconn, hcur>>
driver == <<conns, curs, queries>>

-----------------------------------------------------------------------------
\* Query texts of the script.

Q_select1 == "select 1;"
Q_version == "SELECT current_version()"
Q_role == "SELECT CURRENT_ROLE()"
Q_role_semi == "SELECT CURRENT_ROLE();"
Q_generator == "SELECT COUNT(*) FROM TABLE(GENERATOR(ROWCOUNT => 100000000000));"
Q_timelimit == "SELECT count(*) from table(generator(timeLimit => 5))"

Roles == {"ROLE_A", "ROLE_B"}

\* The rows the service computes for a query text.
Rows(q, r) ==
  CASE q = Q_select1 -> << <<"1">> >>
    [] q = Q_version -> << <<"8.0.0">> >>
    [] q = Q_role -> << <<r>> >>
    [] q = Q_role_semi -> << <<r>> >>
    [] q = Q_generator -> << <<"100000000000">> >>
    [] OTHER -> << <<"count">> >>

\* The column names the service reports for a query text.
Cols(q) ==
  CASE q = Q_select1 -> <<"1">>
    [] q = Q_version -> <<"CURRENT_VERSION()">>
    [] q = Q_role -> <<"CURRENT_ROLE()">>
    [] q = Q_role_semi -> <<"CURRENT_ROLE()">>
    [] OTHER -> <<"COUNT(*)">>

-----------------------------------------------------------------------------
\* Exceptions.

NoErr == [kind |-> "none", errno |-> 0, sqlstate |-> "", msg |-> "",
          sfqid |-> 0, at |-> 0]

\* The exceptions a driver call at source line `at` may raise: a
\* ProgrammingError with its fields, or any other failure.
Errs(at) ==
  {[kind |-> "PE", errno |-> n, sqlstate |-> "42000", msg |-> "SQL error",
    sfqid |-> Len(queries) + 1, at |-> at] : n \in 1..MaxErrno}
  \cup {[kind |-> "Other", errno |-> 0, sqlstate |-> "", msg |-> "",
         sfqid |-> 0, at |-> at]}

\* A driver call as recorded in the trace: the operation, the handle it was
\* issued on, whether that handle was usable then, and whether it returned.
Ev(op, h, live, ok) ==
  [op |-> op, h |-> h, blk |-> blk, live |-> live, ok |-> ok]

ConnLive(h) == h \in 1..Len(conns) /\ conns[h] = "open"
CurLive(h) ==
  h \in 1..Len(curs) /\ curs[h].st = "open" /\ ConnLive(curs[h].conn)

Out(tag, val, e) == [tag |-> tag, val |-> val, err |-> e]

-----------------------------------------------------------------------------
\* The statements of each block body, in source order.

St(op, arg, line) == [op |-> op, arg |-> arg, line |-> line]

\* Mutation of async_block: query_id is read from the cursor only after the
\* second submission.
async_block_late_capture ==
  << St("banner", "use async query", 114),
     St("execute_async", Q_select1, 115),
     St("execute_async", Q_role_semi, 117),
     St("read_sfqid", "", 116),
     St("get_results_from_sfqid", "", 124),
     St("fetchall_results", "", 126),
     St("print_results0", "", 127) >>

\* lines 113-127, the body of the block "use async query"
async_block ==
  << St("banner", "use async query", 114),
     St("execute_async", Q_select1, 115),
     St("read_sfqid", "", 116),
     St("execute_async", Q_role_semi, 117),
     St("get_results_from_sfqid", "", 124),
     St("fetchall_results", "", 126),
     St("print_results0", "", 127) >>

Body(b) ==
  CASE b = 0 -> << St("banner", "standard usage with original context manager", 45),
                   St("with_cursor", "", 46),
                   St("execute", Q_select1, 47),
                   St("fetchone", "", 48) >>
    [] b = 1 -> << St("banner", "standard usage with custom context manager", 64),
                   St("execute", Q_select1, 65),
                   St("fetchone", "", 66),
                   St("execute", Q_version, 67),
                   St("fetchone", "", 68) >>
    [] b = 2 -> << St("banner", "return as a list of dict", 72),
                   St("describe", Q_role, 74),
                   St("execute", Q_role, 76),
                   St("iterate", "", 78) >>
    [] b = 3 -> << St("banner", "return as a pandas dataframe", 82),
                   St("execute", Q_role, 83),
                   St("fetch_pandas_all", "", 84) >>
    [] b = 4 -> << St("banner", "return as a pandas dataframe in batch for large data set", 87),
                   St("execute", Q_role, 88),
                   St("fetch_pandas_batches", "", 89) >>
    [] b = 5 -> << St("banner", "multiple SQL statements at once conn", 94),
                   St("execute_string", "", 99),
                   St("print_each", "", 100) >>
    [] b = 6 -> << St("banner", "multiple SQL statements at once with cur", 104),
                   St("execute", Q_select1, 110),
                   St("fetchall", "", 111),
                   St("execute", Q_role_semi, 110),
                   St("fetchall", "", 111) >>
    [] b = 7 -> async_block
    [] b = 8 -> << St("banner", "use async query with long query with query_result", 131),
                   St("execute_async", Q_generator, 139),
                   St("read_sfqid", "", 140),
                   St("query_result", "", 141),
                   St("fetchall", "", 142),
                   St("print_time", "Execution time query_result", 143) >>
    [] OTHER -> << St("banner", "use async query with long query with get_results_from_sfqid", 147),
                   St("execute_async", Q_timelimit, 152),
                   St("read_sfqid", "", 153),
                   St("get_results_from_sfqid", "", 154),
                   St("fetchall", "", 155),
                   St("print_time", "Execution time get_results_from_sfqid", 156) >>

\* The statements of conn.execute_string's argument (lines 95-98).
SqlScript == <<Q_select1, Q_role_semi>>

Stmt == Body(blk)[ip]
AtStmt(op) == pc = "body" /\ ip \in 1..Len(Body(blk)) /\ Stmt.op = op

-----------------------------------------------------------------------------
Init ==
  /\ blk = 0
  /\ pc = "connect0"
  /\ ip = 1
  /\ conn = 0 /\ cur = 0 /\ query_id = 0 /\ results = <<>> /\ r_pos = 1
  /\ hconn = 0 /\ hcur = 0
  /\ conns = <<>> /\ curs = <<>> /\ queries = <<>>
  /\ role \in Roles
  /\ exc = NoErr
  /\ blockErr = NoErr
  /\ stdout = <<>>
  /\ trace = <<>>

-----------------------------------------------------------------------------
\* Driver calls: what is recorded of a call, and the handles the driver makes.

Returns(op, h, live) == trace' = Append(trace, Ev(op, h, live, TRUE))
Failed(op, h, live, e) == trace' = Append(trace, Ev(op, h, live, FALSE))
Raises(op, h, live, e) ==
  /\ Failed(op, h, live, e)
  /\ exc' = e

NewCursor(c) ==
  [st |-> "open", conn |-> c, sfqid |-> 0, rows |-> <<>>, description |-> <<>>]
CloseCursor(h) == [curs EXCEPT ![h].st = "closed"]
CloseConn(h) == [conns EXCEPT ![h] = "closed"]

\* The exceptions a call on a cursor (connection) may raise: on a handle that
\* is not usable the driver refuses the call.
Refused(at) == [kind |-> "Other", errno |-> 0, sqlstate |-> "", msg |-> "",
                sfqid |-> 0, at |-> at]
CurErrs(h, at) == IF CurLive(h) THEN Errs(at) ELSE {Refused(at)}
ConnErrs(h, at) == IF ConnLive(h) THEN Errs(at) ELSE {Refused(at)}

-----------------------------------------------------------------------------
\* Control flow of a block body.

\* Where control goes when the exception e leaves the body of the with
\* statement: in block 0 to the driver's own __exit__ methods, in the
\* snowflake_cursor blocks into the generator, at its yield.
except_dispatch(e) == IF e.kind = "PE" THEN "print_e" ELSE "cur_close"

BodyEnd == IF blk = 0 THEN "cur_exit" ELSE "cur_close"

BodyOk ==
  /\ pc' = IF ip < Len(Body(blk)) THEN "body" ELSE BodyEnd
  /\ ip' = IF ip < Len(Body(blk)) THEN ip + 1 ELSE ip
  /\ UNCHANGED <<blk, blockErr, locals, role>>

\* An exception that the except clause of line 31 catches is no longer in
\* flight while the handler runs.
BodyRaise(e) ==
  /\ blockErr' = e
  /\ exc' = IF blk # 0 /\ except_dispatch(e) = "print_e" THEN NoErr ELSE e
  /\ pc' = IF blk = 0
             THEN (IF Stmt.op = "with_cursor" THEN "conn_exit" ELSE "cur_exit")
             ELSE except_dispatch(e)
  /\ UNCHANGED <<blk, ip, locals, role>>

-----------------------------------------------------------------------------
\* Block 0, lines 44-48: the driver's own context managers.

\* line 44: with sc.connect(connection_name="dev") as conn
sc_connect0 ==
  /\ pc = "connect0"
  /\ \/ /\ conns' = Append(conns, "open")
        /\ conn' = Len(conns) + 1
        /\ Returns("connect", Len(conns) + 1, TRUE)
        /\ pc' = "body"
        /\ UNCHANGED <<exc, curs, queries>>
     \/ \E e \in Errs(44) :
        /\ Raises("connect", 0, TRUE, e)
        /\ pc' = "exit"
        /\ UNCHANGED <<conn, driver>>
  /\ UNCHANGED <<blk, ip, cur, query_id, results, r_pos, locals, role,
                 blockErr, stdout>>

\* line 46: with conn.cursor() as cur
with_cursor ==
  /\ AtStmt("with_cursor")
  /\ \/ /\ ConnLive(conn)
        /\ curs' = Append(curs, NewCursor(conn))
        /\ cur' = Len(curs) + 1
        /\ Returns("cursor", conn, TRUE)
        /\ BodyOk
        /\ UNCHANGED <<exc, conns, queries>>
     \/ \E e \in ConnErrs(conn, 46) :
        /\ Failed("cursor", conn, ConnLive(conn), e)
        /\ BodyRaise(e)
        /\ UNCHANGED <<cur, driver>>
  /\ UNCHANGED <<conn, query_id, results, r_pos, stdout>>

\* line 46, leaving the inner with: the cursor's __exit__ closes it.
cur_exit ==
  /\ pc = "cur_exit"
  /\ \/ /\ curs' = CloseCursor(cur)
        /\ Returns("cur.close", cur, CurLive(cur))
        /\ UNCHANGED <<exc, conns, queries>>
     \/ \E e \in Errs(46) :
        /\ Raises("cur.close", cur, CurLive(cur), e)
        /\ UNCHANGED driver
  /\ pc' = "conn_exit"
  /\ UNCHANGED <<blk, ip, names, locals, role, blockErr, stdout>>

\* line 44, leaving the outer with: the connection's __exit__ closes it.
conn_exit ==
  /\ pc = "conn_exit"
  /\ \/ /\ conns' = CloseConn(conn)
        /\ Returns("conn.close", conn, ConnLive(conn))
        /\ UNCHANGED <<exc, curs, queries>>
     \/ \E e \in Errs(44) :
        /\ Raises("conn.close", conn, ConnLive(conn), e)
        /\ UNCHANGED driver
  /\ pc' = "exit"
  /\ UNCHANGED <<blk, ip, names, locals, role, blockErr, stdout>>

-----------------------------------------------------------------------------
\* snowflake_cursor, lines 10-41.

\* lines 18-27: conn = sc.connect(connection_name="dev", session_parameters=...)
sc_connect ==
  /\ pc = "connect"
  /\ \/ /\ conns' = Append(conns, "open")
        /\ hconn' = Len(conns) + 1
        /\ Returns("connect", Len(conns) + 1, TRUE)
        /\ pc' = "cursor"
        /\ UNCHANGED <<exc, curs, queries>>
     \/ \E e \in Errs(18) :
        /\ Raises("connect", 0, TRUE, e)
        /\ pc' = "exit"
        /\ UNCHANGED <<hconn, driver>>
  /\ UNCHANGED <<blk, ip, names, hcur, role, blockErr, stdout>>

\* line 28: cur = conn.cursor(), before the try statement
conn_cursor ==
  /\ pc = "cursor"
  /\ \/ /\ curs' = Append(curs, NewCursor(hconn))
        /\ hcur' = Len(curs) + 1
        /\ Returns("cursor", hconn, ConnLive(hconn))
        /\ pc' = "yield"
        /\ UNCHANGED <<exc, conns, queries>>
     \/ \E e \in Errs(28) :
        /\ Raises("cursor", hconn, ConnLive(hconn), e)
        /\ pc' = "exit"
        /\ UNCHANGED <<hcur, driver>>
  /\ UNCHANGED <<blk, ip, names, hconn, role, blockErr, stdout>>

\* Mutation of yield_conn_cur: the body runs with the names conn and cur
\* still bound to the pair of the block before.
yield_stale_names ==
  /\ pc = "yield"
  /\ pc' = "body"
  /\ ip' = 1
  /\ UNCHANGED <<blk, names, locals, driver, role, exc, blockErr, stdout, trace>>

\* line 30: yield conn, cur; the with statement binds the pair to the
\* module-level names conn and cur and enters the body.
yield_conn_cur ==
  /\ pc = "yield"
  /\ conn' = hconn
  /\ cur' = hcur
  /\ pc' = "body"
  /\ ip' = 1
  /\ UNCHANGED <<blk, query_id, results, r_pos, locals, driver, role, exc, blockErr,
                 stdout, trace>>

\* line 34: print(e), the driver's default message
print_e ==
  /\ pc = "print_e"
  /\ stdout' = Append(stdout, Out("default", <<>>, [blockErr EXCEPT !.errno = 0,
                                     !.sqlstate = "", !.sfqid = 0, !.at = 0]))
  /\ pc' = "print_custom"
  /\ UNCHANGED <<blk, ip, names, locals, driver, role, exc, blockErr, trace>>

\* line 36: print("Error {0} ({1}): {2} ({3})".format(e.errno, e.sqlstate,
\* e.msg, e.sfqid))
print_custom ==
  /\ pc = "print_custom"
  /\ stdout' = Append(stdout, Out("custom", <<>>, [blockErr EXCEPT !.at = 0]))
  /\ pc' = "rollback"
  /\ UNCHANGED <<blk, ip, names, locals, driver, role, exc, blockErr, trace>>

\* line 37: conn.rollback()
conn_rollback ==
  /\ pc = "rollback"
  /\ \/ /\ Returns("rollback", hconn, ConnLive(hconn))
        /\ pc' = "raise_e"
        /\ UNCHANGED exc
     \/ \E e \in Errs(37) :
        /\ Raises("rollback", hconn, ConnLive(hconn), e)
        /\ pc' = "cur_close"
  /\ UNCHANGED <<blk, ip, names, locals, driver, role, blockErr, stdout>>

\* Mutation of raise_e: the handler ends without raising, so the error is
\* swallowed once it has been logged.
raise_e_swallowed ==
  /\ pc = "raise_e"
  /\ exc' = NoErr
  /\ pc' = "cur_close"
  /\ UNCHANGED <<blk, ip, names, locals, driver, role, blockErr, stdout, trace>>

\* line 38: raise e
raise_e ==
  /\ pc = "raise_e"
  /\ exc' = blockErr
  /\ pc' = "cur_close"
  /\ UNCHANGED <<blk, ip, names, locals, driver, role, blockErr, stdout, trace>>

\* Mutation of cur_close: the finally block releases the connection first.
cur_close_conn_first ==
  /\ pc = "cur_close"
  /\ \/ /\ conns' = CloseConn(hconn)
        /\ Returns("conn.close", hconn, ConnLive(hconn))
        /\ pc' = "conn_close"
        /\ UNCHANGED <<exc, curs, queries>>
     \/ \E e \in Errs(40) :
        /\ Raises("conn.close", hconn, ConnLive(hconn), e)
        /\ pc' = "exit"
        /\ UNCHANGED driver
  /\ UNCHANGED <<blk, ip, names, locals, role, blockErr, stdout>>

\* line 40: cur.close(), first statement of the finally block
cur_close ==
  /\ pc = "cur_close"
  /\ \/ /\ curs' = CloseCursor(hcur)
        /\ Returns("cur.close", hcur, CurLive(hcur))
        /\ pc' = "conn_close"
        /\ UNCHANGED <<exc, conns, queries>>
     \/ \E e \in Errs(40) :
        /\ Raises("cur.close", hcur, CurLive(hcur), e)
        /\ pc' = "exit"
        /\ UNCHANGED driver
  /\ UNCHANGED <<blk, ip, names, locals, role, blockErr, stdout>>

\* line 41: conn.close(), second statement of the finally block
conn_close ==
  /\ pc = "conn_close"
  /\ \/ /\ conns' = CloseConn(hconn)
        /\ Returns("conn.close", hconn, ConnLive(hconn))
        /\ UNCHANGED <<exc, curs, queries>>
     \/ \E e \in Errs(41) :
        /\ Raises("conn.close", hconn, ConnLive(hconn), e)
        /\ UNCHANGED driver
  /\ pc' = "exit"
  /\ UNCHANGED <<blk, ip, names, locals, role, blockErr, stdout>>

\* The with statement is left: with no exception in flight the script goes on
\* to the next block (or ends), otherwise the exception is unhandled at module
\* level and the interpreter stops with a failure status.
leave_with ==
  /\ pc = "exit"
  /\ IF exc = NoErr
       THEN IF blk < LastBlock
              THEN /\ blk' = blk + 1
                   /\ pc' = "connect"
                   /\ ip' = 1
                   /\ hconn' = 0
                   /\ hcur' = 0
                   /\ blockErr' = NoErr
              ELSE /\ pc' = "done"
                   /\ UNCHANGED <<blk, ip, locals, blockErr>>
       ELSE /\ pc' = "failed"
            /\ UNCHANGED <<blk, ip, locals, blockErr>>
  /\ UNCHANGED <<names, driver, role, exc, stdout, trace>>

-----------------------------------------------------------------------------
\* The statements of the block bodies.

\* print("\n====== ...")
banner ==
  /\ AtStmt("banner")
  /\ stdout' = Append(stdout, Out(Stmt.arg, <<>>, NoErr))
  /\ BodyOk
  /\ UNCHANGED <<names, driver, exc, trace>>

\* cur.execute(query): the service runs the query, the cursor holds its rows.
execute ==
  /\ AtStmt("execute")
  /\ \/ /\ CurLive(cur)
        /\ queries' = Append(queries, Stmt.arg)
        /\ curs' = [curs EXCEPT ![cur].sfqid = Len(queries) + 1,
                                ![cur].rows = Rows(Stmt.arg, role),
                                ![cur].description = Cols(Stmt.arg)]
        /\ Returns("execute", cur, TRUE)
        /\ BodyOk
        /\ UNCHANGED <<exc, conns>>
     \/ \E e \in CurErrs(cur, Stmt.line) :
        /\ Failed("execute", cur, CurLive(cur), e)
        /\ BodyRaise(e)
        /\ UNCHANGED driver
  /\ UNCHANGED <<names, stdout>>

\* print(cur.fetchone()): the next row, or None when there is none.
fetchone ==
  /\ AtStmt("fetchone")
  /\ \/ /\ CurLive(cur)
        /\ stdout' = Append(stdout,
             Out("fetchone", IF curs[cur].rows = <<>> THEN <<>>
                             ELSE <<Head(curs[cur].rows)>>, NoErr))
        /\ curs' = [curs EXCEPT ![cur].rows = IF @ = <<>> THEN <<>> ELSE Tail(@)]
        /\ Returns("fetchone", cur, TRUE)
        /\ BodyOk
        /\ UNCHANGED <<exc, conns, queries>>
     \/ \E e \in CurErrs(cur, Stmt.line) :
        /\ Failed("fetchone", cur, CurLive(cur), e)
        /\ BodyRaise(e)
        /\ UNCHANGED <<driver, stdout>>
  /\ UNCHANGED names

\* print(cur.fetchall()): the rows not fetched yet.
fetchall ==
  /\ AtStmt("fetchall")
  /\ \/ /\ CurLive(cur)
        /\ stdout' = Append(stdout, Out("fetchall", curs[cur].rows, NoErr))
        /\ curs' = [curs EXCEPT ![cur].rows = <<>>]
        /\ Returns("fetchall", cur, TRUE)
        /\ BodyOk
        /\ UNCHANGED <<exc, conns, queries>>
     \/ \E e \in CurErrs(cur, Stmt.line) :
        /\ Failed("fetchall", cur, CurLive(cur), e)
        /\ BodyRaise(e)
        /\ UNCHANGED <<driver, stdout>>
  /\ UNCHANGED names

\* lines 74-75: cur.describe(query) returns the column metadata without
\* running the query; the names are printed.
describe ==
  /\ AtStmt("describe")
  /\ \/ /\ CurLive(cur)
        /\ stdout' = Append(stdout, Out("describe", <<Cols(Stmt.arg)>>, NoErr))
        /\ Returns("describe", cur, TRUE)
        /\ BodyOk
        /\ UNCHANGED <<exc, driver>>
     \/ \E e \in CurErrs(cur, Stmt.line) :
        /\ Failed("describe", cur, CurLive(cur), e)
        /\ BodyRaise(e)
        /\ UNCHANGED <<driver, stdout>>
  /\ UNCHANGED names

\* dict(zip(names, row)): one entry per distinct name among as many pairs as
\* the shorter of the two has, in the order the names first occur, each with
\* the value of the last pair of that name.
DictZip(ns, row) ==
  LET n == IF Len(ns) < Len(row) THEN Len(ns) ELSE Len(row)
      last(i) == CHOOSE j \in i..n :
                   ns[j] = ns[i] /\ \A m \in (j + 1)..n : ns[m] # ns[i]
      all == [i \in 1..n |-> <<ns[i], row[last(i)], i>>]
      first(p) == \A j \in 1..(p[3] - 1) : ns[j] # p[1]
      kept == SelectSeq(all, first)
  IN [i \in 1..Len(kept) |-> <<kept[i][1], kept[i][2]>>]

\* lines 77-79: results = [dict(zip(column names, row)) for row in cur];
\* print(results)
iterate ==
  /\ AtStmt("iterate")
  /\ \/ /\ CurLive(cur)
        /\ results' = [i \in 1..Len(curs[cur].rows) |->
                         DictZip(curs[cur].description, curs[cur].rows[i])]
        /\ stdout' = Append(stdout, Out("results", results', NoErr))
        /\ curs' = [curs EXCEPT ![cur].rows = <<>>]
        /\ Returns("fetch", cur, TRUE)
        /\ BodyOk
        /\ UNCHANGED <<exc, conns, queries>>
     \/ \E e \in CurErrs(cur, Stmt.line) :
        /\ Failed("fetch", cur, CurLive(cur), e)
        /\ BodyRaise(e)
        /\ UNCHANGED <<driver, stdout, results>>
  /\ UNCHANGED <<conn, cur, query_id, r_pos>>

\* line 84: print(cur.fetch_pandas_all()), the whole result as one table
fetch_pandas_all ==
  /\ AtStmt("fetch_pandas_all")
  /\ \/ /\ CurLive(cur)
        /\ stdout' = Append(stdout,
             Out("fetch_pandas_all", curs[cur].rows, NoErr))
        /\ curs' = [curs EXCEPT ![cur].rows = <<>>]
        /\ Returns("fetch_pandas_all", cur, TRUE)
        /\ BodyOk
        /\ UNCHANGED <<exc, conns, queries>>
     \/ \E e \in CurErrs(cur, Stmt.line) :
        /\ Failed("fetch_pandas_all", cur, CurLive(cur), e)
        /\ BodyRaise(e)
        /\ UNCHANGED <<driver, stdout>>
  /\ UNCHANGED names

\* lines 89-90: for batch_df in cur.fetch_pandas_batches():
\* print(batch_df.head()), one request of the loop to the iterator: it gives
\* the next batch, which is printed before the next request, or it is
\* exhausted and the loop ends, or it raises.  The call is recorded once, when
\* the loop ends.
fetch_pandas_batches ==
  /\ AtStmt("fetch_pandas_batches")
  /\ \/ /\ CurLive(cur)
        /\ curs[cur].rows # <<>>
        /\ stdout' = Append(stdout,
             Out("fetch_pandas_batches", <<Head(curs[cur].rows)>>, NoErr))
        /\ curs' = [curs EXCEPT ![cur].rows = Tail(@)]
        /\ UNCHANGED <<blk, pc, ip, blockErr, locals, role>>
        /\ UNCHANGED <<exc, conns, queries, trace>>
     \/ /\ CurLive(cur)
        /\ curs[cur].rows = <<>>
        /\ Returns("fetch_pandas_batches", cur, TRUE)
        /\ BodyOk
        /\ UNCHANGED <<exc, driver, stdout>>
     \/ \E e \in CurErrs(cur, Stmt.line) :
        /\ Failed("fetch_pandas_batches", cur, CurLive(cur), e)
        /\ BodyRaise(e)
        /\ UNCHANGED <<driver, stdout>>
  /\ UNCHANGED names

\* The cursor conn.execute_string makes for one statement of the script: it
\* holds the rows of that statement.
ResultCursor(c, q, id) ==
  [st |-> "open", conn |-> c, sfqid |-> id, rows |-> Rows(q, role),
   description |-> Cols(q)]

\* line 99: results = conn.execute_string(sql), a list of cursors, one per
\* statement
execute_string ==
  /\ AtStmt("execute_string")
  /\ \/ /\ ConnLive(conn)
        /\ queries' = queries \o SqlScript
        /\ curs' = curs \o [i \in 1..Len(SqlScript) |->
                              ResultCursor(conn, SqlScript[i], Len(queries) + i)]
        /\ results' = [i \in 1..Len(SqlScript) |-> Len(curs) + i]
        /\ Returns("execute_string", conn, TRUE)
        /\ BodyOk
        /\ UNCHANGED <<exc, conns>>
     \/ \E e \in ConnErrs(conn, Stmt.line) :
        /\ Failed("execute_string", conn, ConnLive(conn), e)
        /\ BodyRaise(e)
        /\ UNCHANGED <<driver, results>>
  /\ UNCHANGED <<conn, cur, query_id, r_pos, stdout>>

\* line 100: [print(r.fetchall()) for r in results], one pass of the
\* comprehension: r.fetchall() on the next cursor of results, then the print.
\* Over an empty list nothing is called or printed.
print_each ==
  /\ AtStmt("print_each")
  /\ IF r_pos \notin 1..Len(results)
       THEN /\ r_pos' = 1
            /\ BodyOk
            /\ UNCHANGED <<exc, driver, stdout, trace>>
       ELSE \/ /\ CurLive(results[r_pos])
               /\ stdout' = Append(stdout,
                    Out("fetchall", curs[results[r_pos]].rows, NoErr))
               /\ curs' = [curs EXCEPT ![results[r_pos]].rows = <<>>]
               /\ Returns("fetchall", results[r_pos], TRUE)
               /\ IF r_pos < Len(results)
                    THEN /\ r_pos' = r_pos + 1
                         /\ UNCHANGED <<blk, pc, ip, blockErr, locals, role>>
                    ELSE /\ r_pos' = 1
                         /\ BodyOk
               /\ UNCHANGED <<exc, conns, queries>>
            \/ \E e \in CurErrs(results[r_pos], Stmt.line) :
               /\ Failed("fetchall", results[r_pos], CurLive(results[r_pos]), e)
               /\ BodyRaise(e)
               /\ UNCHANGED <<driver, stdout, r_pos>>
  /\ UNCHANGED <<conn, cur, query_id, results>>

\* lines 143 and 156: print(f"Execution time ...: {time.time() - start_time}
\* seconds"); the elapsed time itself is not tracked.
print_time ==
  /\ AtStmt("print_time")
  /\ stdout' = Append(stdout, Out(Stmt.arg, <<>>, NoErr))
  /\ BodyOk
  /\ UNCHANGED <<names, driver, exc, trace>>

\* cur.execute_async(query): the query is submitted and gets its identifier,
\* which becomes the cursor's sfqid; no rows are held yet.
execute_async ==
  /\ AtStmt("execute_async")
  /\ \/ /\ CurLive(cur)
        /\ queries' = Append(queries, Stmt.arg)
        /\ curs' = [curs EXCEPT ![cur].sfqid = Len(queries) + 1,
                                ![cur].rows = <<>>,
                                ![cur].description = <<>>]
        /\ Returns("execute_async", cur, TRUE)
        /\ BodyOk
        /\ UNCHANGED <<exc, conns>>
     \/ \E e \in CurErrs(cur, Stmt.line) :
        /\ Failed("execute_async", cur, CurLive(cur), e)
        /\ BodyRaise(e)
        /\ UNCHANGED driver
  /\ UNCHANGED <<names, stdout>>

\* query_id = cur.sfqid
read_sfqid ==
  /\ AtStmt("read_sfqid")
  /\ query_id' = curs[cur].sfqid
  /\ BodyOk
  /\ UNCHANGED <<conn, cur, results, r_pos, driver, exc, stdout, trace>>

\* The exceptions a retrieval by identifier may raise.
IdErrs(h, id, at) ==
  IF CurLive(h) /\ id \in 1..Len(queries) THEN Errs(at) ELSE {Refused(at)}

\* cur.get_results_from_sfqid(query_id): waits for the query with that
\* identifier and makes the cursor hold its rows.
get_results_from_sfqid ==
  /\ AtStmt("get_results_from_sfqid")
  /\ \/ /\ CurLive(cur)
        /\ query_id \in 1..Len(queries)
        /\ curs' = [curs EXCEPT ![cur].sfqid = query_id,
                                ![cur].rows = Rows(queries[query_id], role),
                                ![cur].description = Cols(queries[query_id])]
        /\ Returns("get_results_from_sfqid", cur, TRUE)
        /\ BodyOk
        /\ UNCHANGED <<exc, conns, queries>>
     \/ \E e \in IdErrs(cur, query_id, Stmt.line) :
        /\ Failed("get_results_from_sfqid", cur, CurLive(cur), e)
        /\ BodyRaise(e)
        /\ UNCHANGED driver
  /\ UNCHANGED <<names, stdout>>

\* cur.query_result(query_id): makes the cursor hold the rows of the query
\* with that identifier.
query_result ==
  /\ AtStmt("query_result")
  /\ \/ /\ CurLive(cur)
        /\ query_id \in 1..Len(queries)
        /\ curs' = [curs EXCEPT ![cur].sfqid = query_id,
                                ![cur].rows = Rows(queries[query_id], role),
                                ![cur].description = Cols(queries[query_id])]
        /\ Returns("query_result", cur, TRUE)
        /\ BodyOk
        /\ UNCHANGED <<exc, conns, queries>>
     \/ \E e \in IdErrs(cur, query_id, Stmt.line) :
        /\ Failed("query_result", cur, CurLive(cur), e)
        /\ BodyRaise(e)
        /\ UNCHANGED driver
  /\ UNCHANGED <<names, stdout>>

\* line 126: results = cur.fetchall()
fetchall_results ==
  /\ AtStmt("fetchall_results")
  /\ \/ /\ CurLive(cur)
        /\ results' = curs[cur].rows
        /\ curs' = [curs EXCEPT ![cur].rows = <<>>]
        /\ Returns("fetchall", cur, TRUE)
        /\ BodyOk
        /\ UNCHANGED <<exc, conns, queries>>
     \/ \E e \in CurErrs(cur, Stmt.line) :
        /\ Failed("fetchall", cur, CurLive(cur), e)
        /\ BodyRaise(e)
        /\ UNCHANGED <<driver, results>>
  /\ UNCHANGED <<conn, cur, query_id, r_pos, stdout>>

\* line 127: print(f"{results[0]}"); an empty list raises IndexError.
print_results0 ==
  /\ AtStmt("print_results0")
  /\ IF results # <<>>
       THEN /\ stdout' = Append(stdout, Out("results0", <<results[1]>>, NoErr))
            /\ BodyOk
            /\ UNCHANGED exc
       ELSE /\ BodyRaise(Refused(Stmt.line))
            /\ UNCHANGED stdout
  /\ UNCHANGED <<names, driver, trace>>

-----------------------------------------------------------------------------
Next ==
  \/ sc_connect0 \/ with_cursor \/ cur_exit \/ conn_exit
  \/ sc_connect \/ conn_cursor \/ yield_conn_cur
  \/ print_e \/ print_custom \/ conn_rollback \/ raise_e
  \/ cur_close \/ conn_close \/ leave_with
  \/ banner \/ execute \/ fetchone \/ fetchall \/ describe \/ iterate
  \/ fetch_pandas_all \/ fetch_pandas_batches \/ execute_string \/ print_each
  \/ execute_async \/ read_sfqid \/ get_results_from_sfqid \/ query_result
  \/ fetchall_results \/ print_results0 \/ print_time

Spec == Init /\ [][Next]_vars

-----------------------------------------------------------------------------
\* Reading the history of the current session.

\* The driver calls named op issued in the current block, as trace indices.
Calls(op) == {i \in DOMAIN trace : trace[i].op = op /\ trace[i].blk = blk}
Releases == Calls("cur.close") \cup Calls("conn.close")

\* The diagnostics of the error handler on stdout, as stdout indices.
Diagnostics == {i \in DOMAIN stdout : stdout[i].tag \in {"default", "custom"}}

\* Control has left the with statement of the current block.
Exited == pc \in {"exit", "failed", "done"}
\* ... and that block is a snowflake_cursor block
HelperExited == blk >= 1 /\ Exited
\* ... whose body was entered (the helper reached its yield)
Yielded == blk >= 1 /\ hcur # 0 /\ pc \notin {"cursor", "yield"}

-----------------------------------------------------------------------------
\* C1: in every snowflake_cursor session whose block completes without
\* raising, the cursor and the connection are each closed exactly once, only
\* after the block has completed, and no rollback is issued.
C1_ClosedExactlyOnceAfterBlock ==
  /\ (blk >= 1 /\ pc = "body") => Releases = {}
  /\ (HelperExited /\ Yielded /\ blockErr = NoErr) =>
       /\ Cardinality(Calls("cur.close")) = 1
       /\ Cardinality(Calls("conn.close")) = 1
       /\ Calls("rollback") = {}

\* C2: in every snowflake_cursor session whose block raises a
\* ProgrammingError, a rollback is issued before either handle is closed and
\* the caller observes that same error, with the same errno, sqlstate, msg
\* and sfqid.
C2_RollbackThenSameError ==
  (HelperExited /\ blockErr.kind = "PE") =>
    /\ Calls("rollback") # {}
    /\ \A i \in Calls("rollback") : \A j \in Releases : i < j
    /\ exc = blockErr

\* C3: in every snowflake_cursor session whose block raises a failure that is
\* not a ProgrammingError, nothing is printed by the handler, no rollback is
\* issued, the caller observes that same failure, and the cursor and the
\* connection are both closed.
C3_OtherFailureUnchangedAndReleased ==
  (HelperExited /\ blockErr.kind = "Other") =>
    /\ Diagnostics = {}
    /\ Calls("rollback") = {}
    /\ exc = blockErr
    /\ Calls("cur.close") # {}
    /\ Calls("conn.close") # {}

\* C4: whenever snowflake_cursor has opened a connection, the helper has
\* closed that connection when it exits, whatever the later steps did.
C4_OpenedConnectionReleased ==
  (HelperExited /\ hconn # 0) =>
    \E i \in Calls("conn.close") : trace[i].h = hconn

\* C5: on exit from the scoped block a close is attempted on both the cursor
\* and the connection, even if one of the two release calls fails.
C5_BothReleasesAttempted ==
  (HelperExited /\ Yielded) =>
    /\ \E i \in Calls("cur.close") : trace[i].h = hcur
    /\ \E j \in Calls("conn.close") : trace[j].h = hconn

\* C10: once the block of a session raises, the helper connects once and runs
\* the block once, the session's handles are released, the error reaches the
\* process boundary, and the script stops there in a failure state.
C10_ErrorEndsScript ==
  /\ (HelperExited /\ blockErr # NoErr) =>
       /\ Cardinality(Calls("connect")) = 1
       /\ Cardinality({i \in DOMAIN stdout : stdout[i].tag = Body(blk)[1].arg}) = 1
       /\ Calls("cur.close") # {}
       /\ Calls("conn.close") # {}
       /\ exc # NoErr
       /\ pc # "done"
  /\ pc = "failed" => ~ENABLED Next

-----------------------------------------------------------------------------
\* The calls of the current block that returned.
Returned(op) == {i \in Calls(op) : trace[i].ok}

\* What the synchronous execution of "select 1;" in the block before printed
\* (lines 110-111, first pass of the loop).
SyncSelect1Rows ==
  LET k == CHOOSE i \in DOMAIN stdout : stdout[i].tag = Body(6)[1].arg
  IN stdout[k + 1].val

\* C6: in the async block, the identifier read from the cursor right after
\* the first submission still identifies that query after a second query has
\* been submitted on the same cursor, and the rows retrieved by it are the
\* rows that executing the same text synchronously returns.
C6_CapturedIdRetrievesItsQuery ==
  blk = 7 =>
    /\ Cardinality(Returned("execute_async")) = 2 =>
         /\ query_id \in 1..Len(queries)
         /\ queries[query_id] = Q_select1
    /\ Returned("fetchall") # {} =>
         /\ results = Rows(Q_select1, role)
         /\ results = SyncSelect1Rows

C6_Witness ==
  /\ blk = 7 /\ pc = "body" /\ Stmt.op = "print_results0"
  /\ Cardinality(Returned("execute_async")) = 2
  /\ query_id < Len(queries)
  /\ queries[Len(queries)] = Q_role_semi
  /\ results = << <<"1">> >>

\* C7: in every snowflake_cursor session a connection close is preceded by a
\* cursor close, and no release is issued while the block or the error
\* handler (diagnostics, rollback, re-raise) is still running.
C7_ReleaseOrder ==
  blk >= 1 =>
    /\ \A j \in Calls("conn.close") : \E i \in Calls("cur.close") : i < j
    /\ \A i \in Calls("rollback") : \A j \in Releases : i < j
    /\ pc \in {"body", "print_e", "print_custom", "rollback", "raise_e"} =>
         Releases = {}
    /\ (blockErr.kind = "PE" /\ Releases # {}) => Calls("rollback") # {}

C7_Witness ==
  /\ HelperExited
  /\ blockErr.kind = "PE"
  /\ \E r \in Returned("rollback") : \E i \in Returned("cur.close") :
       \E j \in Returned("conn.close") : r < i /\ i < j

\* C8: when the block raises a ProgrammingError the helper prints exactly two
\* diagnostics, the default message and then the customized one built from
\* errno, sqlstate, msg and sfqid, both before the rollback; the rollback
\* comes before the re-raise; and the helper never ends without an error.
C8_LogRollbackReraise ==
  (blk >= 1 /\ blockErr.kind = "PE") =>
    /\ pc = "print_e" => Diagnostics = {}
    /\ pc = "print_custom" =>
         /\ Cardinality(Diagnostics) = 1
         /\ stdout[Len(stdout)].tag = "default"
         /\ stdout[Len(stdout)].err.msg = blockErr.msg
    /\ pc \notin {"print_e", "print_custom"} =>
         /\ Diagnostics = {Len(stdout) - 1, Len(stdout)}
         /\ stdout[Len(stdout) - 1].tag = "default"
         /\ stdout[Len(stdout) - 1].err.msg = blockErr.msg
         /\ stdout[Len(stdout)].tag = "custom"
         /\ stdout[Len(stdout)].err.errno = blockErr.errno
         /\ stdout[Len(stdout)].err.sqlstate = blockErr.sqlstate
         /\ stdout[Len(stdout)].err.msg = blockErr.msg
         /\ stdout[Len(stdout)].err.sfqid = blockErr.sfqid
    /\ pc \in {"print_e", "print_custom", "rollback"} => Calls("rollback") = {}
    /\ pc = "raise_e" => Cardinality(Returned("rollback")) = 1
    /\ pc \in {"cur_close", "conn_close", "exit", "failed"} =>
         /\ Cardinality(Calls("rollback")) = 1
         /\ exc # NoErr
         /\ (pc = "cur_close" /\ Returned("rollback") # {}) => exc = blockErr
    /\ pc # "done"

C8_Witness ==
  /\ blk >= 1 /\ pc = "failed"
  /\ blockErr.kind = "PE"
  /\ exc = blockErr
  /\ Cardinality(Diagnostics) = 2
  /\ Returned("rollback") # {}

\* The operations of the driver that need a usable handle, and those among
\* all calls that are issued on a connection rather than on a cursor.
DriverOps ==
  {"cursor", "execute", "execute_async", "describe", "fetchone", "fetchall",
   "fetch", "fetch_pandas_all", "fetch_pandas_batches",
   "get_results_from_sfqid", "query_result", "execute_string", "rollback"}
OnConn ==
  {"connect", "cursor", "rollback", "execute_string", "conn.close"}

\* C9: across the whole script no driver operation is issued on a closed
\* cursor or connection, every block works on a connection and a cursor of
\* its own, and at most one connection is open at any time.
C9_SessionsOwnLiveHandles ==
  /\ \A i \in DOMAIN trace : trace[i].op \in DriverOps => trace[i].live
  /\ \A i, j \in DOMAIN trace :
       (/\ trace[i].h = trace[j].h
        /\ trace[i].h # 0
        /\ (trace[i].op \in OnConn) = (trace[j].op \in OnConn))
       => trace[i].blk = trace[j].blk
  /\ \A b \in 0..LastBlock :
       Cardinality({i \in DOMAIN trace :
                      trace[i].op = "connect" /\ trace[i].blk = b}) <= 1
  /\ Cardinality({h \in DOMAIN conns : conns[h] = "open"}) <= 1

C9_Witness ==
  /\ pc = "done"
  /\ Len(conns) = LastBlock + 1
  /\ \A h \in DOMAIN conns : conns[h] = "closed"
  /\ Len(curs) = LastBlock + 1 + Len(SqlScript)
  /\ \A h \in DOMAIN curs : ~CurLive(h)
  /\ \E i, j \in DOMAIN trace :
       /\ trace[i].op = "fetchall" /\ trace[j].op = "fetchall"
       /\ trace[i].blk = 5 /\ trace[j].blk = 5
       /\ trace[i].h # trace[j].h
  /\ \E i \in DOMAIN trace : trace[i].op = "get_results_from_sfqid" /\ trace[i].blk = LastBlock

====
